---- MODULE Spec2Model ----
(***************************************************************************)
(* Model of ProfessionalInvoice (src/app/invoice_generator.py): the text   *)
(* wrapper _split_description, the row paginator _paginate_table_rows and  *)
(* the build pipeline generate_invoice (paginate, dry-run probe, real      *)
(* render, save).                                                          *)
(*                                                                         *)
(* Lengths are integers in units of 1/1000 point (reportlab: 1 inch = 72   *)
(* points), so every length of the code (0.18 inch, 9/1000 of a glyph      *)
(* width, ...) is an exact integer.  The code computes in binary floating  *)
(* point; the model computes the same expressions in exact arithmetic.     *)
(*                                                                         *)
(* A text is a sequence of one-character strings.                          *)
(***************************************************************************)
EXTENDS Integers, Sequences, FiniteSets, TLC

\* ------------------------------------------------------------------------
\* Bounds of the model
\* ------------------------------------------------------------------------
MaxTextLen == 5          \* longest text handed to _split_description alone
MaxWidthSteps == 4       \* width limits tried: 1..MaxWidthSteps steps
MaxItems == 3            \* longest item list of an invoice
MaxCompanyAddrLines == 2 \* lines of the company address
MaxCustAddrLines == 36   \* lines of the customer address
MaxLineCount == 8        \* most wrapped lines of a row whose height is asked for
MaxInvoices == 3         \* invoices stored in the database
MaxTotalsSteps == 3      \* positions tried for the totals box, each side of
                         \* the lowest one that fits

\* ------------------------------------------------------------------------
\* Characters and the measurement oracle
\* ------------------------------------------------------------------------
SP == " "
TAB == "\t"
NL == "\n"

\* the characters texts are drawn from: a narrow glyph, a wide glyph and
\* the three kinds of whitespace the wrapper treats differently
Alphabet == {"a", "W", SP, TAB, NL}

Inch == 72000
FontSize == 9

\* Helvetica glyph widths in 1/1000 em (a: 556, W: 944, space: 278, and the
\* glyphs of the label "Notes: ")
CharWidth(ch) ==
    CASE ch = "a" -> 556
      [] ch = "W" -> 944
      [] ch = "N" -> 722
      [] ch \in {"o", "e"} -> 556
      [] ch = "s" -> 500
      [] OTHER    -> 278

RECURSIVE SumWidths(_)
SumWidths(s) == IF s = <<>> THEN 0 ELSE CharWidth(Head(s)) + SumWidths(Tail(s))

\* stringWidth(text, "Helvetica", 9): glyph widths add up, scaled by size/1000
StringWidth(s) == FontSize * SumWidths(s)

\* ------------------------------------------------------------------------
\* str helpers used by _split_description
\* ------------------------------------------------------------------------
\* str.splitlines(): no trailing empty line, "" gives no line
RECURSIVE SplitLinesFrom(_, _, _)
SplitLinesFrom(s, cur, acc) ==
    IF s = <<>> THEN (IF cur = <<>> THEN acc ELSE Append(acc, cur))
    ELSE IF Head(s) = NL THEN SplitLinesFrom(Tail(s), <<>>, Append(acc, cur))
    ELSE SplitLinesFrom(Tail(s), Append(cur, Head(s)), acc)

SplitLines(text) == SplitLinesFrom(text, <<>>, <<>>)

\* physical_line.replace("\t", "    ")
RECURSIVE ReplaceTabs(_)
ReplaceTabs(s) ==
    IF s = <<>> THEN <<>>
    ELSE (IF Head(s) = TAB THEN <<SP, SP, SP, SP>> ELSE <<Head(s)>>)
         \o ReplaceTabs(Tail(s))

IsSpace(ch) == ch \in {SP, TAB, NL}

\* re.match(r"^(\s*)", physical_line).group(1): the leading whitespace
RECURSIVE LeadingSpace(_)
LeadingSpace(s) ==
    IF s = <<>> \/ ~IsSpace(Head(s)) THEN <<>>
    ELSE <<Head(s)>> \o LeadingSpace(Tail(s))

\* str.split(): the maximal runs of non-whitespace characters, in order
RECURSIVE SplitWordsFrom(_, _, _)
SplitWordsFrom(s, cur, acc) ==
    IF s = <<>> THEN (IF cur = <<>> THEN acc ELSE Append(acc, cur))
    ELSE IF IsSpace(Head(s))
         THEN SplitWordsFrom(Tail(s), <<>>,
                             IF cur = <<>> THEN acc ELSE Append(acc, cur))
    ELSE SplitWordsFrom(Tail(s), Append(cur, Head(s)), acc)

SplitWords(s) == SplitWordsFrom(s, <<>>, <<>>)

\* truth value of s.strip(): s holds a non-whitespace character
StripNonEmpty(s) == \E k \in 1..Len(s) : ~IsSpace(s[k])

\* ------------------------------------------------------------------------
\* _split_description
\* ------------------------------------------------------------------------
\* test = (line + " " + word) if line.strip() else indent + word
TestLine(line, indent, word) ==
    IF StripNonEmpty(line) THEN line \o <<SP>> \o word ELSE indent \o word

\* stringWidth(test, fontname, fontsize) <= max_width
Fits(test, max_width) == StringWidth(test) <= max_width

\* WordStep with the width test applied to the line built so far instead of
\* the candidate line
WordStep_MeasureLine(all_lines, line, indent, word, max_width) ==
    LET test == TestLine(line, indent, word)
    IN  IF Fits(line, max_width)
        THEN <<all_lines, test>>
        ELSE <<Append(all_lines, line), indent \o word>>

\* WordStep with the width test applied to the word alone
WordStep_MeasureWord(all_lines, line, indent, word, max_width) ==
    LET test == TestLine(line, indent, word)
    IN  IF Fits(word, max_width)
        THEN <<all_lines, test>>
        ELSE <<Append(all_lines, line), indent \o word>>

\* WordStep that starts the new line without the word that overflowed
WordStep_DropWord(all_lines, line, indent, word, max_width) ==
    LET test == TestLine(line, indent, word)
    IN  IF Fits(test, max_width)
        THEN <<all_lines, test>>
        ELSE <<Append(all_lines, line), indent>>

\* one turn of "for word in words": the pair <<all_lines, line>> after it
WordStep(all_lines, line, indent, word, max_width) ==
    LET test == TestLine(line, indent, word)
    IN  IF Fits(test, max_width)
        THEN <<all_lines, test>>
        ELSE <<Append(all_lines, line), indent \o word>>

RECURSIVE WrapWords(_, _, _, _, _)
WrapWords(words, all_lines, line, indent, max_width) ==
    IF words = <<>> THEN <<all_lines, line>>
    ELSE LET st == WordStep(all_lines, line, indent, Head(words), max_width)
         IN  WrapWords(Tail(words), st[1], st[2], indent, max_width)

\* FlushLine that appends only a line that holds text
FlushLine_SkipBlank(all_lines, line, physical_line, words) ==
    IF line # <<>> THEN Append(all_lines, line) ELSE all_lines

\* the statements after the word loop: the last line of the physical line
FlushLine(all_lines, line, physical_line, words) ==
    IF line # <<>> \/ ~StripNonEmpty(physical_line)
    THEN Append(all_lines, line)
    ELSE IF words = <<>> THEN Append(all_lines, <<>>)
    ELSE all_lines

\* one turn of "for physical_line in text.splitlines()"
WrapPhysicalLine(all_lines, raw_line, max_width) ==
    LET physical_line == ReplaceTabs(raw_line)
        indent == LeadingSpace(physical_line)
        words == SplitWords(physical_line)
        st == WrapWords(words, all_lines, indent, indent, max_width)
    IN  FlushLine(st[1], st[2], physical_line, words)

RECURSIVE WrapLines(_, _, _)
WrapLines(lines, all_lines, max_width) ==
    IF lines = <<>> THEN all_lines
    ELSE WrapLines(Tail(lines),
                   WrapPhysicalLine(all_lines, Head(lines), max_width),
                   max_width)

SplitDescription(text, max_width) == WrapLines(SplitLines(text), <<>>, max_width)

\* ------------------------------------------------------------------------
\* Page geometry (class constants and __init__)
\* ------------------------------------------------------------------------
PageWidth == 612000                 \* letter[0]
PageHeight == 792000                \* letter[1]
MARGIN == (3 * Inch) \div 4         \* 0.75 * inch
HEADER_HEIGHT == (12 * Inch) \div 10
FOOTER_HEIGHT == (15 * Inch) \div 10

table_width == (PageWidth - MARGIN) - MARGIN
\* desc_w - 0.1 * inch, desc_w = table_width * 0.40
desc_col_width == (table_width * 40) \div 100 - Inch \div 10

\* self.FOOTER_HEIGHT + inch, the minimum-bottom threshold
min_y == FOOTER_HEIGHT + Inch

\* _calc_info_block_height: 1 main line, the address lines, the items
CalcInfoBlockHeight(address_lines, n_items) ==
    (3 * Inch) \div 10 + (1 + address_lines + n_items) * ((15 * Inch) \div 100)
    + (3 * Inch) \div 10

Max(a, b) == IF a >= b THEN a ELSE b

\* ------------------------------------------------------------------------
\* _draw_notes_section
\* ------------------------------------------------------------------------
\* notes_label = "Notes: "
notes_label == <<"N", "o", "t", "e", "s", ":", SP>>

\* max_width = self.width - 2 * self.MARGIN
NotesMaxWidth == PageWidth - 2 * MARGIN

label_width == StringWidth(notes_label)

\* the label is kept after a break
NotesWordStep_KeepPrefix(st, word) ==
    LET sep == IF st.current # <<>> THEN <<SP>> ELSE <<>>
        candidate == st.current \o sep \o word
    IN  IF StringWidth(candidate) > st.effective_width /\ st.current # <<>>
        THEN [out |-> Append(st.out, st.prefix \o st.current),
              current |-> word,
              prefix |-> st.prefix,
              effective_width |-> st.effective_width]
        ELSE [st EXCEPT !.current = candidate]

\* one turn of "while words" of wrap_line; st = [out, current, prefix,
\* effective_width]
NotesWordStep(st, word) ==
    LET sep == IF st.current # <<>> THEN <<SP>> ELSE <<>>
        candidate == st.current \o sep \o word
    IN  IF StringWidth(candidate) > st.effective_width /\ st.current # <<>>
        THEN [out |-> Append(st.out, st.prefix \o st.current),
              current |-> word,
              prefix |-> <<>>,
              effective_width |-> NotesMaxWidth]
        ELSE [st EXCEPT !.current = candidate]

RECURSIVE NotesWrapWords(_, _)
NotesWrapWords(st, words) ==
    IF words = <<>> THEN st
    ELSE NotesWrapWords(NotesWordStep(st, Head(words)), Tail(words))

\* wrap_line(line, is_first_paragraph_line); line.lstrip().split() and
\* line.split() give the same words
wrap_line(line, is_first_paragraph_line) ==
    LET prefix == IF is_first_paragraph_line THEN notes_label ELSE <<>>
        st == NotesWrapWords(
                  [out |-> <<>>, current |-> <<>>, prefix |-> prefix,
                   effective_width |-> IF prefix = <<>> THEN NotesMaxWidth
                                       ELSE NotesMaxWidth - label_width],
                  SplitWords(line))
    IN  IF st.current # <<>> \/ st.out = <<>>
        THEN Append(st.out, st.prefix \o st.current)
        ELSE st.out

\* "for physical_line in notes_lines": the wrapped lines of all physical
\* lines, in drawing order
RECURSIVE WrapNotesLines(_, _)
WrapNotesLines(notes_lines, is_first_physical_line) ==
    IF notes_lines = <<>> THEN <<>>
    ELSE wrap_line(Head(notes_lines), is_first_physical_line)
         \o WrapNotesLines(Tail(notes_lines), FALSE)

\* the strings _draw_notes_section hands to drawString, top to bottom; line
\* k is drawn at y_position - (k - 1) * 0.15 * inch
NotesDrawn(notes_text) ==
    IF notes_text = <<>> THEN <<>>
    ELSE WrapNotesLines(SplitLines(ReplaceTabs(notes_text)), TRUE)

\* the y_position _draw_notes_section returns
DrawNotesSection(notes_text, y_position) ==
    y_position - Len(NotesDrawn(notes_text)) * ((15 * Inch) \div 100)

\* ------------------------------------------------------------------------
\* State
\* ------------------------------------------------------------------------
VARIABLES
    \* a stand-alone call of _split_description
    text, max_width, all_lines, split_pc,
    \* the result of _split_description at the description column width for
    \* every description text (the wrapper is a pure function of the text;
    \* its results are tabulated once, when the state is set up)
    wrap_table,
    \* the inputs of one build
    items,              \* invoice_data["items"]: records [id, description]
    company_addr_lines, \* number of lines of company_data["address"]
    cust_addr_lines,    \* number of lines of the customer's address
    logo,               \* what self.logo_path leads to: see LogoStates
    \* generate_invoice
    pc,                 \* position in generate_invoice
    table_start_y,
    \* _paginate_table_rows
    i, current_y, page_items, pages,
    \* dry run and real render
    page_count, can_fit, page_number, pi,
    dummy_page,         \* drawing operations on the dummy canvas of the dry run
    cur_page,           \* drawing operations on the open page of the real canvas
    real_pages,         \* pages the real canvas has emitted (showPage / save)
    out_file,           \* what is stored at self.filename
    ref_render,         \* the real render of the same build with a readable logo
    error,              \* the exception generate_invoice ended with, or "none"
    \* a call of _draw_notes_section
    notes,              \* invoice_data["notes"]
    notes_y,            \* the y_position handed in, then the one returned
    notes_drawn,        \* the strings drawn, top to bottom
    notes_pc,
    \* the row height of two line counts
    line_counts,        \* <<m, n>>
    row_heights,        \* <<>>, then the heights of a row of m and of n lines
    \* the HTTP handler generate_invoice serving two requests
    db_invoice_number,  \* DBInvoice.invoice_number of every stored invoice id
    files,              \* per invoice number: the invoice (id) whose document is
                        \* stored as "<invoice_number>.pdf", 0 if there is no file
    requests,           \* per request: [invoice, pc, got, status]
    \* a call of _draw_totals_section
    totals_data,        \* invoice_data: [discount_amount, timbre]
    totals_y,           \* the y_position handed in
    totals_ops,         \* the calls made on the canvas
    totals_ret          \* <<>>, then the pair returned

split_vars == <<text, max_width, all_lines, split_pc, wrap_table>>
input_vars == <<items, company_addr_lines, cust_addr_lines, logo>>
paginate_vars == <<i, current_y, page_items, pages>>
render_vars == <<page_count, can_fit, dummy_page, page_number, pi, cur_page, real_pages,
                 out_file, ref_render>>
build_vars == <<pc, table_start_y, paginate_vars, render_vars, error>>
notes_vars == <<notes, notes_y, notes_drawn, notes_pc>>
height_vars == <<line_counts, row_heights>>
request_vars == <<db_invoice_number, files, requests>>
totals_vars == <<totals_data, totals_y, totals_ops, totals_ret>>
standalone_vars == <<notes_vars, height_vars, request_vars, totals_vars>>
vars == <<split_vars, standalone_vars, input_vars, build_vars>>

\* ------------------------------------------------------------------------
\* Inputs
\* ------------------------------------------------------------------------
RECURSIVE Rep(_, _)
Rep(ch, n) == IF n = 0 THEN <<>> ELSE <<ch>> \o Rep(ch, n - 1)

\* item descriptions: one line; two words that wrap into two lines at the
\* description column width; two paragraphs separated by a blank line
Descriptions ==
    { <<"a">>,
      Rep("W", 12) \o <<SP>> \o Rep("W", 12),
      <<"a", NL, NL, "a">> }

RECURSIVE SeqsUpTo(_, _)
SeqsUpTo(S, n) ==
    IF n = 0 THEN {<<>>}
    ELSE LET shorter == SeqsUpTo(S, n - 1)
         IN  shorter \cup {Append(s, x) : s \in {t \in shorter : Len(t) = n - 1}, x \in S}

\* item k of the list carries id k
ItemLists ==
    { [k \in 1..Len(ds) |-> [id |-> k, description |-> ds[k]]] :
        ds \in SeqsUpTo(Descriptions, MaxItems) }

Texts == SeqsUpTo(Alphabet, MaxTextLen)

\* self.logo_path: empty, the path of no file, the path of a file drawImage
\* cannot read, the path of an image
LogoStates == {"none", "missing", "unreadable", "readable"}

\* width limits of 4, 8, ... points
WidthLimits == { k * 4000 : k \in 1..MaxWidthSteps }

\* ------------------------------------------------------------------------
\* _paginate_table_rows
\* ------------------------------------------------------------------------
\* row_height = max(0.25 * inch, 0.18 * inch * len(desc_lines))
\* the floor is half an inch
RowHeight_HighFloor(n_lines) == Max(Inch \div 2, ((18 * Inch) \div 100) * n_lines)

RowHeight(n_lines) == Max(Inch \div 4, ((18 * Inch) \div 100) * n_lines)

\* desc_lines = self._split_description(item["description"], self.desc_col_width)
WrapTable == [d \in Descriptions |-> SplitDescription(d, desc_col_width)]

\* the row tuple (item, desc_lines, row_height) of an item
TableRow(item) ==
    LET desc_lines == wrap_table[item.description]
    IN  [item |-> item, desc_lines |-> desc_lines,
         row_height |-> RowHeight(Len(desc_lines))]

\* MustBreak without the "and page_items" guard
MustBreak_NoGuard(cur_y, row_height, rows) ==
    cur_y - row_height < min_y

\* MustBreak that tests the cursor before the row instead of the row's bottom
MustBreak_BeforeRow(cur_y, row_height, rows) ==
    cur_y < min_y /\ rows # <<>>

\* a row landing exactly on min_y is moved to the next page
MustBreak_AtThreshold(cur_y, row_height, rows) ==
    cur_y - row_height <= min_y /\ rows # <<>>

\* the threshold is the footer height alone
MustBreak_FooterOnly(cur_y, row_height, rows) ==
    cur_y - row_height < FOOTER_HEIGHT /\ rows # <<>>

\* if current_y - row_height < min_y and page_items
MustBreak(cur_y, row_height, rows) ==
    cur_y - row_height < min_y /\ rows # <<>>

\* PaginateStep that closes the page and retries the same item on the next
\* turn ("continue" after the page break)
PaginateStep_Retry(st, item, y_position) ==
    LET row == TableRow(item)
    IN  IF st.current_y - row.row_height < min_y
        THEN [pages |-> IF st.page_items # <<>>
                        THEN Append(st.pages, [y |-> y_position, rows |-> st.page_items])
                        ELSE st.pages,
              page_items |-> <<>>,
              current_y |-> y_position,
              i |-> st.i]
        ELSE [pages |-> st.pages,
              page_items |-> Append(st.page_items, row),
              current_y |-> st.current_y - row.row_height,
              i |-> st.i + 1]

\* the closed page and the pending page are one list: a row appended to the
\* pending page shows up in the page closed last
PaginateStep_Alias(st, item, y_position) ==
    LET row == TableRow(item)
        brk == MustBreak(st.current_y, row.row_height, st.page_items)
        n == Len(st.pages)
    IN  [pages |-> IF brk
                   THEN Append(st.pages, [y |-> y_position, rows |-> st.page_items])
                   ELSE IF n > 0
                        THEN [st.pages EXCEPT ![n].rows = Append(@, row)]
                        ELSE st.pages,
         page_items |-> Append(IF brk THEN <<>> ELSE st.page_items, row),
         current_y |-> (IF brk THEN y_position ELSE st.current_y) - row.row_height,
         i |-> st.i + 1]

\* one turn of the while loop: the loop state after item number st.i + 1
PaginateStep(st, item, y_position) ==
    LET row == TableRow(item)
        brk == MustBreak(st.current_y, row.row_height, st.page_items)
    IN  [pages |-> IF brk
                   THEN Append(st.pages, [y |-> y_position, rows |-> st.page_items])
                   ELSE st.pages,
         page_items |-> Append(IF brk THEN <<>> ELSE st.page_items, row),
         current_y |-> (IF brk THEN y_position ELSE st.current_y) - row.row_height,
         i |-> st.i + 1]

\* FlushPages that forgets the pending page
FlushPages_Forget(pgs, rows, y_position) == pgs

\* if page_items: pages.append((y_position, page_items.copy()))
FlushPages(pgs, rows, y_position) ==
    IF rows # <<>> THEN Append(pgs, [y |-> y_position, rows |-> rows]) ELSE pgs

\* ------------------------------------------------------------------------
\* Drawing routines, as far as they decide the layout
\* ------------------------------------------------------------------------
RECURSIVE SumHeights(_)
SumHeights(rows) ==
    IF rows = <<>> THEN 0 ELSE Head(rows).row_height + SumHeights(Tail(rows))

\* _table_rows_drawer: the returned offset
TableRowsDrawer(page_y, rows) == page_y - SumHeights(rows) - (3 * Inch) \div 10

\* _draw_table_header: the returned offset
DrawTableHeader(y_position) == y_position - (3 * Inch) \div 10

\* the fit test the wrong way round
DrawTotalsSection_Inverted(y_position) ==
    LET box_height == (16 * Inch) \div 10
    IN  IF y_position - box_height > min_y
        THEN <<FALSE, y_position>>
        ELSE <<TRUE, y_position - box_height - Inch \div 2>>

\* _draw_totals_section: the returned pair (fits, next offset)
DrawTotalsSection(y_position) ==
    LET box_height == (16 * Inch) \div 10
    IN  IF y_position - box_height < min_y
        THEN <<FALSE, y_position>>
        ELSE <<TRUE, y_position - box_height - Inch \div 2>>

\* y_position = self.height - self.HEADER_HEIGHT - 0.5 * inch
YPosition == PageHeight - HEADER_HEIGHT - Inch \div 2

\* a drawing call on a canvas
Op(name, y, k, n) == [op |-> name, y |-> y, k |-> k, n |-> n]

\* "if self.invoice_data.get(key, 0)": a missing key, None and 0 are false
Truthy(value) == value \notin {"missing", "None", "0"}

\* the timbre line is drawn above the discount line
TotalsOps_TimbreFirst(y_position, data) ==
    LET box_height == (16 * Inch) \div 10
        y1 == y_position - (3 * Inch) \div 10
        step == (2 * Inch) \div 10
        y2 == IF Truthy(data.timbre) THEN y1 - step ELSE y1
        y3 == IF Truthy(data.discount_amount) THEN y2 - step ELSE y2
    IN  IF y_position - box_height < min_y
        THEN <<Op("saveState", 0, 0, 0), Op("restoreState", 0, 0, 0)>>
        ELSE <<Op("saveState", 0, 0, 0),
               Op("box", y_position - box_height, 0, 0),
               Op("subtotal", y1, 0, 0)>>
             \o (IF Truthy(data.timbre)
                 THEN <<Op("timbre", y1 - step, 0, 0)>> ELSE <<>>)
             \o (IF Truthy(data.discount_amount)
                 THEN <<Op("discount", y2 - step, 0, 0)>> ELSE <<>>)
             \o <<Op("tax", y3 - step, 0, 0),
                  Op("divider", y3 - step - (15 * Inch) \div 100, 0, 0),
                  Op("total", y3 - step - (40 * Inch) \div 100, 0, 0),
                  Op("restoreState", 0, 0, 0)>>

\* the box is drawn before the fit is tested, and the state is not restored
\* on the way out
TotalsOps_DrawThenTest(y_position, data) ==
    LET box_height == (16 * Inch) \div 10
        y1 == y_position - (3 * Inch) \div 10
        step == (2 * Inch) \div 10
        y2 == IF Truthy(data.discount_amount) THEN y1 - step ELSE y1
        y3 == IF Truthy(data.timbre) THEN y2 - step ELSE y2
    IN  IF y_position - box_height < min_y
        THEN <<Op("saveState", 0, 0, 0), Op("box", y_position - box_height, 0, 0)>>
        ELSE <<Op("saveState", 0, 0, 0),
               Op("box", y_position - box_height, 0, 0),
               Op("subtotal", y1, 0, 0)>>
             \o (IF Truthy(data.discount_amount)
                 THEN <<Op("discount", y1 - step, 0, 0)>> ELSE <<>>)
             \o (IF Truthy(data.timbre)
                 THEN <<Op("timbre", y2 - step, 0, 0)>> ELSE <<>>)
             \o <<Op("tax", y3 - step, 0, 0),
                  Op("divider", y3 - step - (15 * Inch) \div 100, 0, 0),
                  Op("total", y3 - step - (40 * Inch) \div 100, 0, 0),
                  Op("restoreState", 0, 0, 0)>>

\* the calls _draw_totals_section makes on the canvas, in order, each with
\* the y it draws at: saveState, then either restoreState alone (no fit) or
\* the box, the lines of the box and restoreState
TotalsOps(y_position, data) ==
    LET box_height == (16 * Inch) \div 10
        y1 == y_position - (3 * Inch) \div 10
        step == (2 * Inch) \div 10
        y2 == IF Truthy(data.discount_amount) THEN y1 - step ELSE y1
        y3 == IF Truthy(data.timbre) THEN y2 - step ELSE y2
    IN  IF y_position - box_height < min_y
        THEN <<Op("saveState", 0, 0, 0), Op("restoreState", 0, 0, 0)>>
        ELSE <<Op("saveState", 0, 0, 0),
               Op("box", y_position - box_height, 0, 0),
               Op("subtotal", y1, 0, 0)>>
             \o (IF Truthy(data.discount_amount)
                 THEN <<Op("discount", y1 - step, 0, 0)>> ELSE <<>>)
             \o (IF Truthy(data.timbre)
                 THEN <<Op("timbre", y2 - step, 0, 0)>> ELSE <<>>)
             \o <<Op("tax", y3 - step, 0, 0),
                  Op("divider", y3 - step - (15 * Inch) \div 100, 0, 0),
                  Op("total", y3 - step - (40 * Inch) \div 100, 0, 0),
                  Op("restoreState", 0, 0, 0)>>

\* the logo is drawn on every page
DrawHeader_EveryPage(k, n, logo_status) ==
    <<Op("header", PageHeight - HEADER_HEIGHT, k, n)>>
    \o (IF logo_status = "readable"
        THEN <<Op("logo", PageHeight - HEADER_HEIGHT + (2 * Inch) \div 10, 0, 0)>>
        ELSE <<>>)

\* _draw_header: the band and its texts, "Page k/n" among them, and on page 1
\* the logo if the file exists and drawImage does not raise
DrawHeader(k, n, logo_status) ==
    <<Op("header", PageHeight - HEADER_HEIGHT, k, n)>>
    \o (IF k = 1 /\ logo_status = "readable"
        THEN <<Op("logo", PageHeight - HEADER_HEIGHT + (2 * Inch) \div 10, 0, 0)>>
        ELSE <<>>)

\* _draw_footer: the rule at footer_y and the three lines below it
DrawFooter == <<Op("footer", FOOTER_HEIGHT - Inch \div 2, 0, 0)>>

\* the page number is not advanced
NextPageNumber_Same(k) == k

\* page_number += 1
NextPageNumber(k) == k + 1

\* the address blocks are drawn on every page
AddressBlocks_EveryPage(k) ==
    <<Op("company", YPosition, 0, 0), Op("customer", YPosition, 0, 0)>>

\* if page_number == 1: _draw_company_info, _draw_customer_info
AddressBlocks(k) ==
    IF k = 1
    THEN <<Op("company", YPosition, 0, 0), Op("customer", YPosition, 0, 0)>>
    ELSE <<>>

\* the notes are drawn first
ClosingOps_NotesFirst(y, tot) ==
    <<Op("notes", tot[2], 0, 0)>>
    \o (IF tot[1] THEN <<Op("totals", y, 0, 0)>> ELSE <<>>)

\* success, notes_y = _draw_totals_section(c, y), tot being the pair it
\* returns, then _draw_notes_section(c, notes_y)
ClosingOps(y, tot) ==
    (IF tot[1] THEN <<Op("totals", y, 0, 0)>> ELSE <<>>)
    \o <<Op("notes", tot[2], 0, 0)>>

\* one turn of "for pi, (page_y, items_desc_lines) in enumerate(table_pages)"
\* on the canvas st = [cur_page, real_pages, page_number]
RenderStep(st, page, is_last, n_pages, logo_status) ==
    LET head == DrawHeader(st.page_number, n_pages, logo_status) \o DrawFooter
                \o AddressBlocks(st.page_number)
        header_y == IF st.page_number = 1 THEN page.y ELSE YPosition
        rows_start_y == DrawTableHeader(header_y)
        y_end == TableRowsDrawer(rows_start_y, page.rows)
        body == head \o <<Op("table_header", header_y, 0, 0),
                          Op("rows", rows_start_y, page.rows[1].item.id, y_end)>>
        tot == DrawTotalsSection(y_end)
        tot2 == DrawTotalsSection(YPosition)
    IN  IF is_last
        THEN IF tot[1]
             THEN [st EXCEPT !.cur_page = st.cur_page \o body \o ClosingOps(y_end, tot)]
             ELSE [cur_page |-> DrawHeader(NextPageNumber(st.page_number), n_pages, logo_status)
                                \o DrawFooter
                                \o ClosingOps(YPosition, tot2),
                   real_pages |-> Append(st.real_pages, st.cur_page \o body),
                   page_number |-> NextPageNumber(st.page_number)]
        ELSE [cur_page |-> <<>>,
              real_pages |-> Append(st.real_pages, st.cur_page \o body),
              page_number |-> NextPageNumber(st.page_number)]

\* c.save(): the open page, if anything was drawn on it, is emitted
SaveStep(st) ==
    [st EXCEPT !.real_pages = IF st.cur_page # <<>> THEN Append(@, st.cur_page) ELSE @,
               !.cur_page = <<>>]

NewCanvas == [cur_page |-> <<>>, real_pages |-> <<>>, page_number |-> 1]

\* ------------------------------------------------------------------------
\* generate_invoice, step by step
\* ------------------------------------------------------------------------
NoSplitCall ==
    /\ wrap_table = WrapTable
    /\ text = <<>>
    /\ max_width = 0
    /\ all_lines = <<>>
    /\ split_pc = "idle"

NoNotesCall ==
    /\ notes = <<>>
    /\ notes_y = 0
    /\ notes_drawn = <<>>
    /\ notes_pc = "idle"

NoHeightCall ==
    /\ line_counts = <<0, 0>>
    /\ row_heights = <<>>

NoRequests ==
    /\ db_invoice_number = <<>>
    /\ files = <<>>
    /\ requests = <<>>

NoTotalsCall ==
    /\ totals_data = [discount_amount |-> "missing", timbre |-> "missing"]
    /\ totals_y = 0
    /\ totals_ops = <<>>
    /\ totals_ret = <<>>

NotStarted ==
    /\ table_start_y = 0
    /\ i = 0
    /\ current_y = 0
    /\ page_items = <<>>
    /\ pages = <<>>
    /\ page_count = 0
    /\ can_fit = FALSE
    /\ dummy_page = <<>>
    /\ page_number = 0
    /\ pi = 0
    /\ cur_page = <<>>
    /\ real_pages = <<>>
    /\ out_file = "absent"
    /\ ref_render = [cur_page |-> <<>>, real_pages |-> <<>>, page_number |-> 0]
    /\ error = "none"

\* the object after __init__
Init ==
    /\ NoSplitCall
    /\ NoNotesCall
    /\ NoHeightCall
    /\ NoRequests
    /\ NoTotalsCall
    /\ items \in ItemLists
    /\ company_addr_lines \in 1..MaxCompanyAddrLines
    /\ cust_addr_lines \in 1..MaxCustAddrLines
    /\ logo \in LogoStates
    /\ pc = "constructed"
    /\ NotStarted

\* block heights, table_start_y and the entry into _paginate_table_rows
Begin ==
    /\ pc = "constructed"
    /\ LET company_h == CalcInfoBlockHeight(company_addr_lines, 2)
           customer_h == CalcInfoBlockHeight(cust_addr_lines, 2)
           block_h == Max(company_h, customer_h)
       IN  /\ table_start_y' = YPosition - block_h - Inch \div 2
           /\ current_y' = YPosition - block_h - Inch \div 2
    /\ i' = 0
    /\ page_items' = <<>>
    /\ pages' = <<>>
    /\ pc' = "paginate"
    /\ UNCHANGED <<split_vars, standalone_vars, input_vars, render_vars, error>>

\* one turn of the while loop of _paginate_table_rows
PaginateIter ==
    /\ pc = "paginate"
    /\ i < Len(items)
    /\ LET st == PaginateStep([pages |-> pages, page_items |-> page_items,
                               current_y |-> current_y, i |-> i],
                              items[i + 1], table_start_y)
       IN  /\ pages' = st.pages
           /\ page_items' = st.page_items
           /\ current_y' = st.current_y
           /\ i' = st.i
    /\ UNCHANGED <<split_vars, standalone_vars, input_vars, pc, table_start_y, render_vars, error>>

\* the loop exit, the flush of the pending page and the return
PaginateReturn ==
    /\ pc = "paginate"
    /\ ~(i < Len(items))
    /\ pages' = FlushPages(pages, page_items, table_start_y)
    /\ pc' = "probe"
    /\ UNCHANGED <<split_vars, standalone_vars, input_vars, table_start_y, i, current_y,
                   page_items, render_vars, error>>

\* the dry run forgets the page it has measured (pop instead of [-1])
DryRunProbe_ConsumesPage(pgs) ==
    LET last == pgs[Len(pgs)]
        y_test == TableRowsDrawer(last.y, last.rows)
        tot == DrawTotalsSection(y_test)
    IN  [pages |-> SubSeq(pgs, 1, Len(pgs) - 1),
         dummy |-> <<Op("rows", last.y, last.rows[1].item.id, y_test)>>
                   \o (IF tot[1] THEN <<Op("totals", y_test, 0, 0)>> ELSE <<>>),
         can_fit |-> tot[1],
         page_count |-> Len(pgs) + (IF tot[1] THEN 0 ELSE 1)]

\* the dry run on a non-empty page list: the rows of the last page and the
\* totals box are drawn on dummy_canvas; what it leaves of the page list, what
\* the dummy canvas holds, can_fit and page_count
DryRunProbe(pgs) ==
    LET last == pgs[Len(pgs)]
        y_test == TableRowsDrawer(last.y, last.rows)
        tot == DrawTotalsSection(y_test)
    IN  [pages |-> pgs,
         dummy |-> <<Op("rows", last.y, last.rows[1].item.id, y_test)>>
                   \o (IF tot[1] THEN <<Op("totals", y_test, 0, 0)>> ELSE <<>>),
         can_fit |-> tot[1],
         page_count |-> Len(pgs) + (IF tot[1] THEN 0 ELSE 1)]

\* the dry run on the dummy canvas; table_pages[-1] raises IndexError on an
\* empty page list
DryRun ==
    /\ pc = "probe"
    /\ IF pages = <<>>
       THEN /\ pc' = "failed"
            /\ error' = "IndexError"
            /\ UNCHANGED <<pages, page_count, can_fit, dummy_page>>
       ELSE LET probe == DryRunProbe(pages)
            IN  /\ pages' = probe.pages
                /\ dummy_page' = probe.dummy
                /\ can_fit' = probe.can_fit
                /\ page_count' = probe.page_count
                /\ pc' = "open"
                /\ UNCHANGED error
    /\ UNCHANGED <<split_vars, standalone_vars, input_vars, table_start_y, i, current_y,
                   page_items, page_number, pi, cur_page, real_pages, out_file,
                   ref_render>>

\* c = canvas.Canvas(self.filename, ...); page_number = 1.  The canvas keeps
\* the document in memory: nothing is written to self.filename before save
OpenCanvas ==
    /\ pc = "open"
    /\ page_number' = NewCanvas.page_number
    /\ cur_page' = NewCanvas.cur_page
    /\ real_pages' = NewCanvas.real_pages
    /\ ref_render' = NewCanvas
    /\ pi' = 0
    /\ pc' = "render"
    /\ UNCHANGED <<split_vars, standalone_vars, input_vars, table_start_y, paginate_vars,
                   page_count, can_fit, dummy_page, out_file, error>>

\* one turn of "for pi, (page_y, items_desc_lines) in enumerate(table_pages)"
RenderPage ==
    /\ pc = "render"
    /\ pi < Len(pages)
    /\ LET is_last == (pi = Len(pages) - 1)
           st == RenderStep([cur_page |-> cur_page, real_pages |-> real_pages,
                             page_number |-> page_number],
                            pages[pi + 1], is_last, page_count, logo)
       IN  /\ cur_page' = st.cur_page
           /\ real_pages' = st.real_pages
           /\ page_number' = st.page_number
           /\ ref_render' = RenderStep(ref_render, pages[pi + 1], is_last, page_count,
                                       "readable")
    /\ pi' = pi + 1
    /\ UNCHANGED <<split_vars, standalone_vars, input_vars, pc, table_start_y, paginate_vars,
                   page_count, can_fit, dummy_page, out_file, error>>

\* c.save() returns: the open page is emitted and the document is stored at
\* self.filename
Save ==
    /\ pc = "render"
    /\ ~(pi < Len(pages))
    /\ LET st == SaveStep([cur_page |-> cur_page, real_pages |-> real_pages,
                           page_number |-> page_number])
       IN  /\ real_pages' = st.real_pages
           /\ cur_page' = st.cur_page
    /\ ref_render' = SaveStep(ref_render)
    /\ out_file' = "complete"
    /\ pc' = "saved"
    /\ UNCHANGED <<split_vars, standalone_vars, input_vars, table_start_y, paginate_vars,
                   page_count, can_fit, dummy_page, page_number, pi, error>>

\* c.save() raises while it writes (disk full, I/O error): save opens
\* self.filename itself and writes the document into it, so what was written
\* before the failure stays there
SaveFails ==
    /\ pc = "render"
    /\ ~(pi < Len(pages))
    /\ out_file' \in {"absent", "partial"}
    /\ pc' = "failed"
    /\ error' = "OSError"
    /\ UNCHANGED <<split_vars, standalone_vars, input_vars, table_start_y, paginate_vars,
                   page_count, can_fit, dummy_page, page_number, pi, cur_page, real_pages,
                   ref_render>>

Next ==
    \/ Begin
    \/ PaginateIter
    \/ PaginateReturn
    \/ DryRun
    \/ OpenCanvas
    \/ RenderPage
    \/ Save
    \/ SaveFails

Spec == Init /\ [][Next]_vars

\* generate_invoice runs to its end: every enabled step is eventually taken
FairSpec == Spec /\ WF_vars(Next)

\* ------------------------------------------------------------------------
\* A stand-alone call of _split_description on any text and width limit
\* ------------------------------------------------------------------------
InitSplit ==
    /\ wrap_table = WrapTable
    /\ text \in Texts
    /\ max_width \in WidthLimits
    /\ all_lines = <<>>
    /\ split_pc = "call"
    /\ NoNotesCall
    /\ NoHeightCall
    /\ NoRequests
    /\ NoTotalsCall
    /\ items = <<>>
    /\ company_addr_lines = 1
    /\ cust_addr_lines = 1
    /\ logo = "none"
    /\ pc = "idle"
    /\ NotStarted

SplitCall ==
    /\ split_pc = "call"
    /\ all_lines' = SplitDescription(text, max_width)
    /\ split_pc' = "return"
    /\ UNCHANGED <<text, max_width, wrap_table, standalone_vars, input_vars,
                   build_vars>>

NextSplit == SplitCall

SpecSplit == InitSplit /\ [][NextSplit]_vars

\* the state of an object no build of which is under way
NoBuild ==
    /\ items = <<>>
    /\ company_addr_lines = 1
    /\ cust_addr_lines = 1
    /\ logo = "none"
    /\ pc = "idle"
    /\ NotStarted

\* ------------------------------------------------------------------------
\* The row height of _paginate_table_rows, asked for two line counts
\* ------------------------------------------------------------------------
InitHeights ==
    /\ NoSplitCall
    /\ NoNotesCall
    /\ NoRequests
    /\ NoTotalsCall
    /\ line_counts \in (0..MaxLineCount) \X (0..MaxLineCount)
    /\ row_heights = <<>>
    /\ NoBuild

RowHeightCall ==
    /\ row_heights = <<>>
    /\ row_heights' = <<RowHeight(line_counts[1]), RowHeight(line_counts[2])>>
    /\ UNCHANGED <<split_vars, notes_vars, line_counts, request_vars, totals_vars, input_vars,
                   build_vars>>

NextHeights == RowHeightCall

SpecHeights == InitHeights /\ [][NextHeights]_vars

\* ------------------------------------------------------------------------
\* A stand-alone call of _draw_totals_section
\* ------------------------------------------------------------------------
\* invoice_data["discount_amount"], invoice_data["timbre"]: no such key,
\* None, zero, an amount
AmountValues == {"missing", "None", "0", "12.5"}

\* the y_position at which the box just fits
LowestTotalsY == min_y + (16 * Inch) \div 10

\* positions around LowestTotalsY, a twentieth of an inch apart (0.3 inch is
\* six of them), the position one unit too low, and the top of a trailing page
TotalsPositions ==
    { LowestTotalsY + k * (Inch \div 20) : k \in (0 - MaxTotalsSteps)..MaxTotalsSteps }
    \cup {LowestTotalsY - 1, YPosition}

InitTotals ==
    /\ NoSplitCall
    /\ NoNotesCall
    /\ NoHeightCall
    /\ NoRequests
    /\ totals_data \in [discount_amount : AmountValues, timbre : AmountValues]
    /\ totals_y \in TotalsPositions
    /\ totals_ops = <<>>
    /\ totals_ret = <<>>
    /\ NoBuild

TotalsCall ==
    /\ totals_ret = <<>>
    /\ totals_ops' = TotalsOps(totals_y, totals_data)
    /\ totals_ret' = DrawTotalsSection(totals_y)
    /\ UNCHANGED <<split_vars, notes_vars, height_vars, request_vars, totals_data,
                   totals_y, input_vars, build_vars>>

NextTotals == TotalsCall

SpecTotals == InitTotals /\ [][NextTotals]_vars

\* ------------------------------------------------------------------------
\* The HTTP handler generate_invoice (src/app/main.py) serving two requests
\* ------------------------------------------------------------------------
InvoiceIds == 1..MaxInvoices

\* DBInvoice.invoice_number is a String column with no unique constraint
InvoiceNumbers == {"INV-1", "INV-2"}

Requests == {1, 2}

\* the invoice ids a request can name: the stored ones and one that is not
RequestedIds == InvoiceIds \cup {MaxInvoices + 1}

\* the status the client gets when the handler body raises
\* HTTPException(status_code): the body is inside "try", and
\* "except Exception as e: raise HTTPException(status_code=500, ...)" catches
\* HTTPException too, which is an Exception
RaisedStatus(status_code) == 500

InitRequests ==
    /\ NoSplitCall
    /\ NoNotesCall
    /\ NoHeightCall
    /\ NoTotalsCall
    /\ db_invoice_number \in [InvoiceIds -> InvoiceNumbers]
    /\ files = [num \in InvoiceNumbers |-> 0]
    /\ requests \in [Requests -> [invoice : RequestedIds, pc : {"received"}, got : {0},
                                 status : {0}]]
    /\ NoBuild

\* the handler body up to "return FileResponse(...)": the invoice is read,
\* file_name = f"{invoice.invoice_number}.pdf" and generate_invoice() stores
\* the document of this invoice under file_name.  The handler is a coroutine
\* with no await in it, so its body runs in one piece
HandleRequest(r) ==
    /\ requests[r].pc = "received"
    /\ requests[r].invoice \in DOMAIN db_invoice_number
    /\ files' = [files EXCEPT ![db_invoice_number[requests[r].invoice]] =
                                  requests[r].invoice]
    /\ requests' = [requests EXCEPT ![r].pc = "built"]
    /\ UNCHANGED <<split_vars, notes_vars, height_vars, db_invoice_number, totals_vars, input_vars,
                   build_vars>>

\* the FileResponse is sent after the handler has returned: the file at
\* path=file_name is read then
SendFile(r) ==
    /\ requests[r].pc = "built"
    /\ requests' = [requests EXCEPT
                       ![r].pc = "served",
                       ![r].status = 200,
                       ![r].got = files[db_invoice_number[requests[r].invoice]]]
    /\ UNCHANGED <<split_vars, notes_vars, height_vars, db_invoice_number, files, totals_vars,
                   input_vars, build_vars>>

\* the handler for an invoice id the database does not have: "if not
\* db_invoice: raise HTTPException(status_code=404, ...)"; no file is written
RejectRequest(r) ==
    /\ requests[r].pc = "received"
    /\ requests[r].invoice \notin DOMAIN db_invoice_number
    /\ requests' = [requests EXCEPT ![r].pc = "refused",
                                    ![r].status = RaisedStatus(404)]
    /\ UNCHANGED <<split_vars, notes_vars, height_vars, db_invoice_number, files,
                   totals_vars, input_vars, build_vars>>

NextRequests == \E r \in Requests : HandleRequest(r) \/ SendFile(r) \/ RejectRequest(r)

SpecRequests == InitRequests /\ [][NextRequests]_vars

\* ------------------------------------------------------------------------
\* A stand-alone call of _draw_notes_section on any notes text
\* ------------------------------------------------------------------------
\* notes of two long words: the first wrapped line cannot hold both; notes
\* of eight short lines
LongNotes ==
    { Rep("W", 30) \o <<SP>> \o Rep("W", 30),
      <<"a", NL>> \o Rep("W", 30) \o <<TAB>> \o Rep("W", 30),
      <<"a", NL, "a", NL, "a", NL, "a", NL, "a", NL, "a", NL, "a", NL, "a">> }

\* the y_position generate_invoice hands to _draw_notes_section: the second
\* value _draw_totals_section returns where the box fits
NotesStarts ==
    { DrawTotalsSection(y)[2] : y \in { p \in TotalsPositions : DrawTotalsSection(p)[1] } }

NotesTexts == Texts \cup LongNotes

InitNotes ==
    /\ NoSplitCall
    /\ notes \in NotesTexts
    /\ notes_y \in NotesStarts
    /\ notes_drawn = <<>>
    /\ notes_pc = "call"
    /\ NoHeightCall
    /\ NoRequests
    /\ NoTotalsCall
    /\ items = <<>>
    /\ company_addr_lines = 1
    /\ cust_addr_lines = 1
    /\ logo = "none"
    /\ pc = "idle"
    /\ NotStarted

NotesCall ==
    /\ notes_pc = "call"
    /\ notes_drawn' = NotesDrawn(notes)
    /\ notes_y' = DrawNotesSection(notes, notes_y)
    /\ notes_pc' = "return"
    /\ UNCHANGED <<split_vars, notes, height_vars, request_vars, totals_vars, input_vars,
                   build_vars>>

NextNotes == NotesCall

SpecNotes == InitNotes /\ [][NextNotes]_vars

\* ------------------------------------------------------------------------
\* Properties of _paginate_table_rows and generate_invoice
\* ------------------------------------------------------------------------
Paginated == pc \in {"probe", "open", "render", "saved", "failed"}

RowItems(rows) == [k \in 1..Len(rows) |-> rows[k].item]

RECURSIVE ConcatPages(_)
ConcatPages(pgs) ==
    IF pgs = <<>> THEN <<>> ELSE RowItems(Head(pgs).rows) \o ConcatPages(Tail(pgs))

\* the height between the table top of a page and the threshold
Band(page) == page.y - min_y

\* C1: the rows of all returned pages, concatenated in page order, are the
\* item list: same count, same order, each item once.  During the loop the
\* closed pages followed by the pending page are the items consumed so far.
C1_PagesCoverItems ==
    /\ pc = "paginate" =>
          ConcatPages(pages) \o RowItems(page_items) = SubSeq(items, 1, i)
    /\ Paginated => ConcatPages(pages) = items

\* a full item list was spread over several pages
C1_Witness ==
    /\ pc = "probe"
    /\ Len(items) = MaxItems
    /\ Len(pages) >= 2
    /\ \E k \in 1..Len(pages) : Len(pages[k].rows) >= 2

\* C2: the page count N decided by the dry run and printed in the headers
\* equals the number of pages the real render emits.
C2_ProbeMatchesRender ==
    pc = "saved" => Len(real_pages) = page_count

\* C3: with an empty item list generate_invoice does not fail: it ends with
\* a saved document of exactly one page.
C3_EmptyItemsOnePage ==
    (items = <<>> /\ pc \in {"failed", "saved"}) =>
        (pc = "saved" /\ error = "none" /\ Len(real_pages) = 1)

\* C4: in every state of the pagination and after it, every page of the
\* page list holds at least one row.
C4_NoEmptyPage ==
    \A k \in 1..Len(pages) : pages[k].rows # <<>>

\* a row taller than the band was the first row of a page after a page break
C4_Witness ==
    /\ Len(pages) >= 2
    /\ \E k \in 2..Len(pages) :
          /\ Len(pages[k].rows) = 1
          /\ pages[k].rows[1].row_height > Band(pages[k])

\* C5: every turn of the loop consumes exactly one item, the loop is left
\* with all items consumed, and pagination always ends.
C5_PaginateTerminates ==
    /\ [][(pc = "paginate" /\ i < Len(items)) => (i' = i + 1 /\ pc' = "paginate")]_vars
    /\ [](pc = "probe" => i = Len(items))
    /\ ((pc = "paginate") ~> (pc = "probe"))

\* pagination ended on a list with a row taller than the whole band
C5_Witness ==
    /\ pc = "probe"
    /\ i = Len(items)
    /\ Len(items) >= 2
    /\ \E k \in 1..Len(pages) : \E r \in 1..Len(pages[k].rows) :
          pages[k].rows[r].row_height > Band(pages[k])

\* C6: a page holding two or more rows has rows summing to at most the band
\* height (table top minus the minimum-bottom threshold).
C6_PageWithinBand ==
    \A k \in 1..Len(pages) :
        Len(pages[k].rows) >= 2 => SumHeights(pages[k].rows) <= Band(pages[k])

\* a page of two or more rows was closed because the next row did not fit
C6_Witness ==
    /\ pc = "probe"
    /\ \E k \in 1..Len(pages) - 1 :
          /\ Len(pages[k].rows) >= 2
          /\ SumHeights(pages[k].rows) + pages[k + 1].rows[1].row_height > Band(pages[k])

\* ------------------------------------------------------------------------
\* Properties of _split_description
\* ------------------------------------------------------------------------
Returned == split_pc = "return"

LineTokens(line) == SplitWords(line)

RECURSIVE ConcatTokens(_)
ConcatTokens(lines) ==
    IF lines = <<>> THEN <<>> ELSE LineTokens(Head(lines)) \o ConcatTokens(Tail(lines))

NoWhitespace(s) == \A k \in 1..Len(s) : ~IsSpace(s[k])

\* C7 as stated: every returned line measures at most max_width, unless the
\* line is exactly one token (with its indent) that alone exceeds max_width.
C7_LinesWithinWidth ==
    Returned =>
        \A k \in 1..Len(all_lines) :
            \/ StringWidth(all_lines[k]) <= max_width
            \/ Len(LineTokens(all_lines[k])) = 1

\* C7 (amended): every returned line that holds two or more tokens measures
\* at most max_width; only a line of at most one token (the indent alone, or
\* the indent and a single token) may exceed it.
C7_MultiTokenLinesWithinWidth ==
    Returned =>
        \A k \in 1..Len(all_lines) :
            \/ StringWidth(all_lines[k]) <= max_width
            \/ Len(LineTokens(all_lines[k])) <= 1

\* one physical line was broken after a line of two tokens
C7_Witness ==
    /\ Returned
    /\ Len(SplitLines(text)) = 1
    /\ Len(all_lines) >= 2
    /\ Len(LineTokens(all_lines[1])) >= 2

\* position p of text starts an empty physical line that lies between two
\* non-empty physical lines
BlankBetween(p) ==
    /\ p \in 2..(Len(text) - 2)
    /\ text[p] = NL
    /\ text[p + 1] = NL
    /\ text[p - 1] # NL
    /\ text[p + 2] # NL

\* C8: an empty physical line between two non-empty ones yields exactly one
\* empty wrapped line, between the wrapped lines of the text before it and
\* the wrapped lines of the text after it; two single tokens that fit,
\* separated by a blank line, give the three lines token, "", token.
C8_BlankLineKept ==
    Returned =>
        \A p \in 1..Len(text) :
            BlankBetween(p) =>
                LET before == SubSeq(text, 1, p - 1)
                    after == SubSeq(text, p + 2, Len(text))
                IN  /\ all_lines = SplitDescription(before, max_width) \o <<<<>>>>
                                   \o SplitDescription(after, max_width)
                    /\ (/\ NoWhitespace(before) /\ Fits(before, max_width)
                        /\ NoWhitespace(after) /\ Fits(after, max_width))
                       => all_lines = <<before, <<>>, after>>

\* 'Line1', blank, 'Line2' was wrapped into three lines
C8_Witness ==
    /\ Returned
    /\ \E p \in 1..Len(text) :
          /\ BlankBetween(p)
          /\ NoWhitespace(SubSeq(text, 1, p - 1))
          /\ NoWhitespace(SubSeq(text, p + 2, Len(text)))
    /\ Len(all_lines) = 3
    /\ all_lines[1] # <<>>
    /\ all_lines[2] = <<>>
    /\ all_lines[3] # <<>>

\* the token is wider than the width limit
IsWide(token) == StringWidth(token) > max_width

\* C9: a token wider than max_width is never split: the over-wide tokens of
\* the output are those of the input, in order, and each is the only token
\* of its line.
C9_WideTokenAlone ==
    Returned =>
        /\ SelectSeq(ConcatTokens(all_lines), IsWide) = SelectSeq(SplitWords(text), IsWide)
        /\ \A k \in 1..Len(all_lines) :
              LET toks == LineTokens(all_lines[k])
              IN  (\E j \in 1..Len(toks) : IsWide(toks[j])) => Len(toks) = 1

\* an over-wide token stood between two tokens that fit, on one physical line
C9_Witness ==
    /\ Returned
    /\ Len(SplitLines(text)) = 1
    /\ LET toks == SplitWords(text)
       IN  /\ Len(toks) = 3
           /\ ~IsWide(toks[1])
           /\ IsWide(toks[2])
           /\ ~IsWide(toks[3])
           /\ \E k \in 1..Len(all_lines) : all_lines[k] = toks[2]

\* the output lines out split into consecutive runs, one per physical line,
\* each run holding exactly the tokens of its physical line
RECURSIVE LinesCover(_, _)
LinesCover(out, phys) ==
    IF phys = <<>> THEN out = <<>>
    ELSE \E k \in 0..Len(out) :
            /\ ConcatTokens(SubSeq(out, 1, k)) = SplitWords(Head(phys))
            /\ LinesCover(SubSeq(out, k + 1, Len(out)), Tail(phys))

\* C10: the tokens of the output lines, in order, are the whitespace-separated
\* tokens of the input, and no output line holds tokens of two physical lines.
C10_TokensKeptPerLine ==
    Returned =>
        /\ ConcatTokens(all_lines) = SplitWords(text)
        /\ LinesCover(all_lines, SplitLines(text))

\* two physical lines with tokens, the first wrapped into several lines
C10_Witness ==
    /\ Returned
    /\ LET phys == SplitLines(text)
       IN  /\ Len(phys) = 2
           /\ Len(SplitWords(phys[1])) >= 2
           /\ Len(SplitWords(phys[2])) >= 1
    /\ Len(all_lines) >= 3

\* ------------------------------------------------------------------------
\* Notes
\* ------------------------------------------------------------------------
NotesReturned == notes_pc = "return"

IsWord(s) == s # <<>> /\ NoWhitespace(s)

\* C11: the notes 'A<TAB>B<NEWLINE>C' are drawn as the two lines
\* 'Notes: A    B' and 'C'; in general a tab between two words of a notes
\* line is drawn as 4 spaces between them.
C11_TabDrawnAsFourSpaces ==
    NotesReturned =>
        /\ notes = <<"a", TAB, "W", NL, "a">> =>
               notes_drawn = << notes_label \o <<"a", SP, SP, SP, SP, "W">>, <<"a">> >>
        /\ \A k \in 2..(Len(notes) - 1) :
               ( /\ notes[k] = TAB
                 /\ IsWord(SubSeq(notes, 1, k - 1))
                 /\ IsWord(SubSeq(notes, k + 1, Len(notes))) )
               => notes_drawn = << notes_label \o SubSeq(notes, 1, k - 1)
                                   \o <<SP, SP, SP, SP>>
                                   \o SubSeq(notes, k + 1, Len(notes)) >>

\* ------------------------------------------------------------------------
\* The real render
\* ------------------------------------------------------------------------
Saved == pc = "saved"

OpsNamed(page_ops, name) == { k \in 1..Len(page_ops) : page_ops[k].op = name }

CountOps(page_ops, name) == Cardinality(OpsNamed(page_ops, name))

TheOp(page_ops, name) == page_ops[CHOOSE k \in OpsNamed(page_ops, name) : TRUE]

\* the totals box, 1.6 inch high, placed at y stays at or above min_y
BoxFitsAt(y) == y - (16 * Inch) \div 10 >= min_y

\* C12: the totals box is drawn exactly once per document, on the final
\* emitted page only: never on a non-last table page; on the last table page
\* when it fits below the rows there; otherwise on one additional trailing
\* page, at the top of the body, where it always fits.
C12_TotalsOnceOnFinalPage ==
    /\ \A j \in 1..Len(real_pages) :
           j < Len(pages) => CountOps(real_pages[j], "totals") = 0
    /\ Saved =>
           LET n == Len(real_pages)
               tp == Len(pages)
               fits == BoxFitsAt(TheOp(real_pages[tp], "rows").n)
           IN  /\ \A j \in 1..n :
                      CountOps(real_pages[j], "totals") = (IF j = n THEN 1 ELSE 0)
               /\ fits => n = tp
               /\ ~fits => /\ n = tp + 1
                           /\ CountOps(real_pages[n], "rows") = 0
                           /\ TheOp(real_pages[n], "totals").y = YPosition
                           /\ BoxFitsAt(YPosition)

\* a build whose totals box went to a trailing page
C12_Witness ==
    /\ Saved
    /\ Len(real_pages) = Len(pages) + 1
    /\ CountOps(real_pages[Len(pages)], "totals") = 0
    /\ CountOps(real_pages[Len(real_pages)], "totals") = 1

\* C13: the real render emits one page per paginator page, in the
\* paginator's order, then at most one trailing page; every emitted page has
\* exactly one header and one footer, and the page number drawn in the header
\* of the k-th emitted page is k.
C13_OnePagePerTablePage ==
    /\ Len(real_pages) <= Len(pages) + 1
    /\ Saved => Len(real_pages) >= Len(pages)
    /\ \A j \in 1..Len(real_pages) :
           /\ CountOps(real_pages[j], "header") = 1
           /\ CountOps(real_pages[j], "footer") = 1
           /\ TheOp(real_pages[j], "header").k = j
           /\ IF j <= Len(pages)
              THEN /\ CountOps(real_pages[j], "rows") = 1
                   /\ TheOp(real_pages[j], "rows").k = pages[j].rows[1].item.id
                   /\ TheOp(real_pages[j], "rows").n =
                          TheOp(real_pages[j], "rows").y
                          - SumHeights(pages[j].rows) - (3 * Inch) \div 10
              ELSE CountOps(real_pages[j], "rows") = 0

\* a saved document of two table pages or more
C13_Witness ==
    /\ Saved
    /\ Len(pages) >= 2
    /\ Len(real_pages) >= Len(pages)

\* C14: a build either ends with the finished document at self.filename or
\* fails and leaves no file there, whatever the step that failed, the
\* writing of the file by save included.
C14_FileCompleteOrAbsent ==
    /\ Saved => out_file = "complete"
    /\ pc = "failed" => out_file = "absent"

\* ------------------------------------------------------------------------
\* Concurrent requests
\* ------------------------------------------------------------------------
\* C15: two requests for two different invoices do not interfere: under
\* every interleaving, the document each request is answered with is the one
\* built from its own invoice.
C15_RequestGetsOwnInvoice ==
    \A r1, r2 \in DOMAIN requests :
        ( /\ requests[r1].invoice # requests[r2].invoice
          /\ requests[r1].pc = "served" )
        => requests[r1].got = requests[r1].invoice

\* ------------------------------------------------------------------------
\* The logo
\* ------------------------------------------------------------------------
StripLogo(page_ops) == SelectSeq(page_ops, LAMBDA o : o.op # "logo")

StripLogos(pgs) == [j \in 1..Len(pgs) |-> StripLogo(pgs[j])]

\* C16: a logo that is missing or cannot be read does not fail the build and
\* does not change the layout: the emitted pages, the page numbers and every
\* vertical offset are those of the same build with a readable logo; the logo
\* is drawn on page 1 only, and only when it can be read.
C16_LogoLeavesLayoutAlone ==
    /\ pc \in {"render", "saved", "failed"} /\ error # "IndexError" =>
           /\ StripLogos(real_pages) = StripLogos(ref_render.real_pages)
           /\ StripLogo(cur_page) = StripLogo(ref_render.cur_page)
           /\ page_number = ref_render.page_number
    /\ pc = "failed" => error \in {"IndexError", "OSError"}
    /\ \A j \in 1..Len(real_pages) :
           CountOps(real_pages[j], "logo") = (IF j = 1 /\ logo = "readable" THEN 1 ELSE 0)
    /\ (cur_page # <<>> /\ real_pages # <<>>) => CountOps(cur_page, "logo") = 0

\* a saved document of two pages or more whose logo could not be read, while
\* the same build with a readable logo has drawn it
C16_Witness ==
    /\ Saved
    /\ logo = "unreadable"
    /\ Len(real_pages) >= 2
    /\ CountOps(ref_render.real_pages[1], "logo") = 1
    /\ CountOps(real_pages[1], "logo") = 0

\* ------------------------------------------------------------------------
\* Row height
\* ------------------------------------------------------------------------
HeightsReturned == row_heights # <<>>

\* C17 (as stated): the row height strictly increases with the number of
\* wrapped lines: for any line counts m < n, from 0 upward, a row of m lines
\* is lower than a row of n lines.
C17_RowHeightStrictlyIncreasing ==
    HeightsReturned /\ line_counts[1] < line_counts[2]
        => row_heights[1] < row_heights[2]

\* C17 (amended): the row height never decreases with the number of wrapped
\* lines and strictly increases from 1 line upward; rows of 0 lines and of
\* 1 line both have the floor height of 0.25 inch.
C17_RowHeightIncreasingAboveFloor ==
    HeightsReturned /\ line_counts[1] < line_counts[2]
        => /\ row_heights[1] <= row_heights[2]
           /\ line_counts[2] >= 2 => row_heights[1] < row_heights[2]
           /\ line_counts[2] = 1 => /\ row_heights[1] = Inch \div 4
                                    /\ row_heights[2] = Inch \div 4

\* the heights of a row of 1 line and of a row of 2 lines
C17_Witness ==
    /\ HeightsReturned
    /\ line_counts = <<1, 2>>
    /\ row_heights[1] < row_heights[2]

\* ------------------------------------------------------------------------
\* Rows and the threshold
\* ------------------------------------------------------------------------
\* C18: in the real render, on every page that holds two rows or more, the
\* bottom edge of every drawn row, the lowest one included, is at or above
\* min_y, the rows starting where the renderer starts them (below the table
\* header, on page 1 and on later pages).
C18_DrawnRowsAboveThreshold ==
    \A j \in 1..Len(real_pages) :
        (j <= Len(pages) /\ Len(pages[j].rows) >= 2)
        => TheOp(real_pages[j], "rows").y - SumHeights(pages[j].rows) >= min_y

\* the pages closed so far followed by the pending one
PagesSoFar ==
    IF pc = "paginate" /\ page_items # <<>>
    THEN Append(pages, [y |-> table_start_y, rows |-> page_items])
    ELSE pages

\* C19: every page but the last holds a maximal run of rows: a page is closed
\* only when the next row, appended to it, would end below min_y; a row
\* whose bottom edge lands exactly on min_y stays on the page.
C19_MaximalRun ==
    \A k \in 1..(Len(PagesSoFar) - 1) :
        SumHeights(PagesSoFar[k].rows) + PagesSoFar[k + 1].rows[1].row_height
            > Band(PagesSoFar[k])

\* a closed page whose last row landed exactly on min_y, followed by a page
C19_Witness ==
    /\ Paginated
    /\ Len(pages) >= 2
    /\ Len(pages[1].rows) >= 2
    /\ SumHeights(pages[1].rows) = Band(pages[1])

\* C20: a row higher than the whole table band is the only row of its page:
\* the rows before it are closed into an earlier page and the item after it
\* starts a new page.
C20_OversizedRowAlone ==
    \A k \in 1..Len(PagesSoFar) :
        \A r \in 1..Len(PagesSoFar[k].rows) :
            PagesSoFar[k].rows[r].row_height > Band(PagesSoFar[k])
            => Len(PagesSoFar[k].rows) = 1

\* an oversized row alone on the page between the page of the row before it
\* and the page of the item after it
C20_Witness ==
    /\ Paginated
    /\ Len(pages) = 3
    /\ pages[1].rows[1].row_height <= Band(pages[1])
    /\ pages[2].rows[1].row_height > Band(pages[2])
    /\ Len(pages[2].rows) = 1
    /\ pages[3].rows[1].row_height <= Band(pages[3])

\* ------------------------------------------------------------------------
\* Frame of the page list
\* ------------------------------------------------------------------------
\* C21: a page that _paginate_table_rows has appended to the page list keeps
\* its start offset and its rows in every later step: of the pagination, of
\* the dry run and of the real render.
C21_PagesImmutable ==
    [][ \A k \in 1..Len(pages) : Len(pages') >= k /\ pages'[k] = pages[k] ]_vars

\* the real render at work on the second page of a list of two or more
C21_Witness ==
    /\ pc = "render"
    /\ pi >= 1
    /\ Len(pages) >= 2
    /\ pages[1].y = table_start_y
    /\ Len(real_pages) >= 1

\* ------------------------------------------------------------------------
\* The dry run
\* ------------------------------------------------------------------------
\* C22: the dry run is over before the real canvas is created and before any
\* real page is emitted, and it has no effect on the real output: it draws on
\* the dummy canvas only, which no later step reads or saves, and it leaves
\* the page list, the geometry and the invoice data as they were.
C22_DryRunLeavesBuildAlone ==
    /\ [](pc \in {"constructed", "paginate", "probe"} =>
              /\ cur_page = <<>>
              /\ real_pages = <<>>
              /\ page_number = 0
              /\ out_file = "absent")
    /\ [][ pc = "probe" => UNCHANGED <<pages, table_start_y, input_vars, cur_page,
                                       real_pages, out_file>> ]_vars
    /\ [][ pc # "probe" => dummy_page' = dummy_page ]_vars

\* the dry run has drawn on the dummy canvas and found that the totals box
\* does not fit; the real canvas does not exist yet
C22_Witness ==
    /\ pc = "open"
    /\ dummy_page # <<>>
    /\ ~can_fit
    /\ page_count = Len(pages) + 1
    /\ real_pages = <<>>

\* ------------------------------------------------------------------------
\* What a page is made of
\* ------------------------------------------------------------------------
\* the names of the drawing steps of a page, in the order they were made
OpNames(page_ops) == [k \in 1..Len(page_ops) |-> page_ops[k].op]

\* the pages drawn so far: the emitted ones, then the open one
DrawnPages == IF cur_page # <<>> THEN Append(real_pages, cur_page) ELSE real_pages

\* C23: on every real page the drawing steps come in the order header,
\* footer, then (page 1 only) the address blocks, then the table header, then
\* the rows, then (last table page only) the totals box followed by the
\* notes; the notes are never drawn before the totals box or without it.
C23_DrawingOrder ==
    \A j \in 1..Len(DrawnPages) :
        LET names == OpNames(StripLogo(DrawnPages[j]))
            head == <<"header", "footer">>
                    \o (IF j = 1 THEN <<"company", "customer">> ELSE <<>>)
            table == <<"table_header", "rows">>
            closing == <<"totals", "notes">>
        IN  /\ names \in { head \o table, head \o table \o closing, head \o closing }
            /\ names = head \o table \o closing => j = Len(pages)
            /\ names = head \o closing => j = Len(pages) + 1
            /\ \A k \in 1..Len(names) :
                   names[k] = "notes" => (k > 1 /\ names[k - 1] = "totals")

\* a saved document whose second or later table page ends with the totals
\* box and the notes
C23_Witness ==
    /\ Saved
    /\ Len(pages) >= 2
    /\ Len(real_pages) = Len(pages)
    /\ OpNames(real_pages[Len(pages)]) =
           <<"header", "footer", "table_header", "rows", "totals", "notes">>

\* C24: the company and the customer address blocks are drawn on page 1
\* only; the table header is drawn exactly once on every page that has table
\* rows and not on a trailing page that has the totals box only.
C24_AddressAndTableHeader ==
    \A j \in 1..Len(DrawnPages) :
        /\ CountOps(DrawnPages[j], "company") = (IF j = 1 THEN 1 ELSE 0)
        /\ CountOps(DrawnPages[j], "customer") = (IF j = 1 THEN 1 ELSE 0)
        /\ CountOps(DrawnPages[j], "table_header") = CountOps(DrawnPages[j], "rows")
        /\ CountOps(DrawnPages[j], "table_header") = (IF j <= Len(pages) THEN 1 ELSE 0)

\* a saved document of a table page with the address blocks and a trailing
\* page with neither address blocks nor table header
C24_Witness ==
    /\ Saved
    /\ Len(real_pages) = Len(pages) + 1
    /\ CountOps(real_pages[1], "company") = 1
    /\ CountOps(real_pages[1], "table_header") = 1
    /\ CountOps(real_pages[Len(real_pages)], "table_header") = 0
    /\ CountOps(real_pages[Len(real_pages)], "customer") = 0

\* ------------------------------------------------------------------------
\* The label of the notes
\* ------------------------------------------------------------------------
HasLabel(line) ==
    Len(line) >= Len(notes_label) /\ SubSeq(line, 1, Len(notes_label)) = notes_label

\* C25: for every non-empty notes text the label "Notes: " starts exactly
\* one drawn line, the first line of the notes block, also when the first
\* physical line is blank or wraps into several lines; no later line has the
\* label or an indent added.
C25_LabelOnFirstLineOnly ==
    (NotesReturned /\ notes # <<>>) =>
        /\ Len(notes_drawn) >= 1
        /\ HasLabel(notes_drawn[1])
        /\ \A k \in 2..Len(notes_drawn) :
               /\ ~HasLabel(notes_drawn[k])
               /\ notes_drawn[k] # <<>> => ~IsSpace(notes_drawn[k][1])

\* notes whose first physical line was wrapped into two lines or more
C25_Witness ==
    /\ NotesReturned
    /\ \A k \in 1..Len(notes) : notes[k] # NL
    /\ Len(notes_drawn) >= 2
    /\ HasLabel(notes_drawn[1])
    /\ ~HasLabel(notes_drawn[2])

\* ------------------------------------------------------------------------
\* The totals box
\* ------------------------------------------------------------------------
TotalsReturned == totals_ret # <<>>

\* the lines of the box, in the order they were drawn
TotalsLines ==
    OpNames(SelectSeq(totals_ops,
                      LAMBDA o : o.op \notin {"saveState", "restoreState", "box"}))

\* the number of saveState calls still open after the first k calls
OpenStates(k) ==
    Cardinality({ j \in 1..k : totals_ops[j].op = "saveState" })
    - Cardinality({ j \in 1..k : totals_ops[j].op = "restoreState" })

\* C26: when the totals box is drawn, its lines come in the order subtotal,
\* discount, timbre, tax, divider, total, from top to bottom; the discount
\* line is there if and only if discount_amount is non-zero (not when it is
\* missing, None or 0), and the timbre line if and only if timbre is non-zero.
C26_TotalsLines ==
    (TotalsReturned /\ totals_ret[1]) =>
        LET lines == SelectSeq(totals_ops,
                               LAMBDA o : o.op \notin {"saveState", "restoreState", "box"})
        IN  /\ TotalsLines =
                   <<"subtotal">>
                   \o (IF totals_data.discount_amount \in {"missing", "None", "0"}
                       THEN <<>> ELSE <<"discount">>)
                   \o (IF totals_data.timbre \in {"missing", "None", "0"}
                       THEN <<>> ELSE <<"timbre">>)
                   \o <<"tax", "divider", "total">>
            /\ \A k \in 1..(Len(lines) - 1) : lines[k].y > lines[k + 1].y

\* a box drawn with the discount line and the timbre line
C26_Witness ==
    /\ TotalsReturned
    /\ totals_ret[1]
    /\ totals_data.discount_amount = "12.5"
    /\ totals_data.timbre = "12.5"
    /\ Len(TotalsLines) = 6

\* C28: when _draw_totals_section reports no-fit (y_position less the box
\* height is below min_y), it has drawn nothing, its saveState and
\* restoreState calls are balanced, and it returns False with the y_position
\* it was given.
C28_NoFitDrawsNothing ==
    (TotalsReturned /\ totals_y - (16 * Inch) \div 10 < min_y) =>
        /\ totals_ret = <<FALSE, totals_y>>
        /\ \A k \in 1..Len(totals_ops) :
               /\ totals_ops[k].op \in {"saveState", "restoreState"}
               /\ OpenStates(k) >= 0
        /\ OpenStates(Len(totals_ops)) = 0

\* a call one unit too low for the box
C28_Witness ==
    /\ TotalsReturned
    /\ totals_y = LowestTotalsY - 1
    /\ ~totals_ret[1]
    /\ Len(totals_ops) = 2

\* ------------------------------------------------------------------------
\* Token-less lines of _split_description
\* ------------------------------------------------------------------------
\* the number of lines of a list that hold no token
TokenLess(lines) == Cardinality({ k \in 1..Len(lines) : LineTokens(lines[k]) = <<>> })

\* C27: for every text, as many returned lines hold no token as physical
\* lines of the text hold no token: a token-less line is returned only where
\* the text has a blank physical line (so a physical line of one over-wide
\* token gives exactly one returned line).
C27_TokenLessLinesAreBlankLines ==
    Returned => TokenLess(all_lines) = TokenLess(SplitLines(text))

\* ------------------------------------------------------------------------
\* The notes and the footer
\* ------------------------------------------------------------------------
\* y of the rule _draw_footer draws: footer_y = FOOTER_HEIGHT - 0.5 * inch
FooterRuleY == FOOTER_HEIGHT - Inch \div 2

\* y of the k-th drawn line of the notes, once the call has returned
NotesLineY(k) == notes_y + (Len(notes_drawn) - k + 1) * ((15 * Inch) \div 100)

\* C29: no line of the notes is drawn at or below the footer rule
\* (y = FOOTER_HEIGHT - 0.5 inch), whatever the notes text and wherever the
\* totals box was placed above it.
C29_NotesAboveFooterRule ==
    NotesReturned =>
        \A k \in 1..Len(notes_drawn) : NotesLineY(k) > FooterRuleY

\* ------------------------------------------------------------------------
\* Requests for an invoice that does not exist
\* ------------------------------------------------------------------------
\* C30: a generate_invoice request for an invoice id that does not exist is
\* answered with status 404, not with another error status, and no document
\* is built for it.
C30_MissingInvoiceIs404 ==
    \A r \in DOMAIN requests :
        requests[r].invoice \notin DOMAIN db_invoice_number =>
            /\ requests[r].pc \in {"received", "refused"}
            /\ requests[r].got = 0
            /\ requests[r].pc = "refused" => requests[r].status = 404

====
